---- MODULE Spec2Model ----
(***************************************************************************)
(* Client-side synchronisation core of Prodigy (frontend/src/App.js): the  *)
(* query entry ['tasks', projectId] kept by the QueryClient, the           *)
(* updateTask / createTask mutations of KanbanBoard and WorkSession, and   *)
(* the remote task store behind GET/PUT/POST.                              *)
(*                                                                         *)
(* The QueryClient is built with no options (App.js:30), so the entry has  *)
(* the library defaults: staleTime 0, retry 3 for queries, retry 0 for     *)
(* mutations, refetch on mount and on window focus, and                    *)
(* invalidateQueries refetching active queries with cancelRefetch.         *)
(* The query function never reads the abort signal, so a cancelled fetch   *)
(* stays on the wire and only its response is dropped.                     *)
(* The components call apiCall, which App.js provides only as the result   *)
(* of createApiCall(user); each call is taken as one request through that  *)
(* helper.  The outcome of a request is a nondeterministic choice between  *)
(* success and failure; failure covers every rejection of the helper, and  *)
(* the rejection of a call made where no helper is bound (HelperBound).    *)
(*                                                                         *)
(* Beside the board, the module has the create forms of WorkSession and    *)
(* StudySession with the entries they invalidate (PagesSpec) and the        *)
(* PomodoroTimer of StudySession (PomodoroSpec).                           *)
(***************************************************************************)
EXTENDS Integers, Sequences, FiniteSets, TLC

\* ------------------------------------------------------------------ bounds
MaxMutations == 2     \* mutate() calls (drops and task submits) in one run

\* --------------------------------------------------------------- constants
\* Query retries of a QueryClient built without options (App.js:30).
DefaultRetry == 3

\* Status the store gives a created task: App.js posts only title and
\* description, the store chooses the column.
CreatedStatus == "backlog"

TaskIds  == <<"T1", "T2", "T3", "T4", "T5">>
columns  == <<"backlog", "todo", "in_progress", "done">>
Statuses == {columns[i] : i \in 1..Len(columns)}

VARIABLES
    server,      \* remote store: sequence of [id, status]
    query,       \* the entry ['tasks', projectId] of the query cache
    orphans,     \* GET requests superseded by a cancelRefetch, still on the wire
    mounted,     \* KanbanBoard is mounted (its observer subscribes the entry)
    pending,     \* mutations whose remote write is in flight, in issue order
    updateTask,  \* status of the useMutation result in KanbanBoard
    createTask,  \* status of the useMutation result in WorkSession
    settled,     \* history: the mutation the latest step settled, if any
    issued,      \* number of mutate() calls made so far
    stored,      \* history: the fetch whose response the latest step stored, if any
    dragCancelled, \* history: the latest step was a drag that ended with no destination
    page,        \* the page the run stays on: "board", "projects" or "study"
    forms,       \* status of the useMutation results of the forms of the page
    keys,        \* the entries ['projects'], ['flashcards'], ['todayEvents']
    timeLeft,    \* PomodoroTimer: seconds left
    isRunning,   \* PomodoroTimer: the countdown runs
    isBreak,     \* PomodoroTimer: break mode (else focus mode)
    expired      \* the last step was the expiry branch of the timer's effect

\* What the board's handlers never touch.
offBoard == <<page, forms, keys, timeLeft, isRunning, isBreak, expired>>

vars == <<issued, server, query, orphans, mounted, pending, updateTask, createTask,
          settled, stored, dragCancelled, page, forms, keys,
          timeLeft, isRunning, isBreak, expired>>

\* ------------------------------------------------------------ data helpers
Task(id, status) == [id |-> id, status |-> status]

Ids(list) == {list[i].id : i \in 1..Len(list)}

HasTask(list, id) == id \in Ids(list)

StatusOf(list, id) ==
    IF HasTask(list, id)
    THEN (CHOOSE t \in {list[i] : i \in 1..Len(list)} : t.id = id).status
    ELSE "undefined"

\* PUT /tasks/{id} {status}: the store rewrites the status of that task
PutTask(list, id, status) ==
    [i \in 1..Len(list) |->
        IF list[i].id = id THEN Task(id, status) ELSE list[i]]

\* POST /projects/{id}/tasks: the store appends a task under the next id
PostTask(list) == Append(list, Task(TaskIds[Len(list) + 1], CreatedStatus))

\* ---------------------------------------------------------------- retryer
NoRetryer ==
    [phase |-> "none", snap |-> <<>>, cause |-> "none",
     invalSince |-> FALSE, failureCount |-> 0, retryCancelled |-> FALSE]

NewRetryer(cause) ==
    [phase |-> "sent", snap |-> <<>>, cause |-> cause,
     invalSince |-> FALSE, failureCount |-> 0, retryCancelled |-> FALSE]

\* ------------------------------------------------------------ query entry
\* The entry before its first observer (and after garbage collection).
NoQuery ==
    [built |-> FALSE, data |-> <<>>, hasData |-> FALSE, status |-> "loading",
     fetchStatus |-> "idle", isInvalidated |-> FALSE, retryer |-> NoRetryer]

\* Mutant: every fetch call supersedes the running fetch.
CancelsFetchAlways(q, cancelRefetch) == q.fetchStatus = "fetching"

\* Mutant: no fetch call ever supersedes the running fetch.
CancelsFetchNever(q, cancelRefetch) == FALSE

\* Query.fetch would silently cancel the running fetch and start another.
CancelsFetch(q, cancelRefetch) ==
    q.fetchStatus = "fetching" /\ q.hasData /\ cancelRefetch

\* Requests a Query.fetch call leaves on the wire with their response dropped.
Superseded(q, cancelRefetch) == IF CancelsFetch(q, cancelRefetch) THEN 1 ELSE 0

\* Query.fetch(options, {cancelRefetch}) started for `cause`.
QueryFetch(q, cancelRefetch, cause) ==
    IF q.fetchStatus = "fetching"
    THEN IF CancelsFetch(q, cancelRefetch)
         THEN [q EXCEPT !.retryer = NewRetryer(cause)]
         ELSE [q EXCEPT !.retryer.retryCancelled = FALSE]
    ELSE [q EXCEPT !.built = TRUE,
                   !.fetchStatus = "fetching",
                   !.status = IF q.hasData THEN q.status ELSE "loading",
                   !.retryer = NewRetryer(cause)]

\* queryClient.invalidateQueries({queryKey: ['tasks', projectId]}): marks the
\* entry, then refetches it when it is active (has an observer).
InvalidateQueries(q, active) ==
    IF ~q.built THEN q
    ELSE LET marked == [q EXCEPT !.isInvalidated = TRUE,
                                 !.retryer.invalSince =
                                     (q.retryer.phase # "none")]
         IN  IF active THEN QueryFetch(marked, TRUE, "invalidate") ELSE marked

\* Requests one invalidateQueries call supersedes.
InvalidateSupersedes(q, active) ==
    IF q.built /\ active THEN Superseded(q, TRUE) ELSE 0

\* Notifications the entry's subscribers get when a callback takes the entry
\* from `before` to `after`: one per reducer dispatch (invalidate, fetch).
Dispatches(before, after) ==
    (IF after.isInvalidated /\ ~before.isInvalidated THEN 1 ELSE 0)
    + (IF after.fetchStatus = "fetching" /\ before.fetchStatus = "idle" THEN 1 ELSE 0)
    + (IF after.data # before.data THEN 1 ELSE 0)

\* Mutant: the response is appended to the list the entry already holds.
SetDataMerging(q, list) ==
    [q EXCEPT !.data = q.data \o list,
              !.hasData = TRUE,
              !.status = "success",
              !.fetchStatus = "idle",
              !.isInvalidated = FALSE,
              !.retryer = NoRetryer]

\* The entry's reducer for a fetched response: the list is replaced whole.
SetData(q, list) ==
    [q EXCEPT !.data = list,
              !.hasData = TRUE,
              !.status = "success",
              !.fetchStatus = "idle",
              !.isInvalidated = FALSE,
              !.retryer = NoRetryer]

\* The entry's reducer for a fetch that failed for good: data is kept.
SetError(q) ==
    [q EXCEPT !.status = "error", !.fetchStatus = "idle", !.retryer = NoRetryer]

\* Mutant: a QueryClient built with retry: false.
ShouldRetryNever(r) == FALSE

\* The retryer runs the query function again after a failure.
ShouldRetry(r) == r.failureCount < DefaultRetry /\ ~r.retryCancelled

\* A failed attempt: the query function is sent again, or the entry gives up.
FailFetch(q) ==
    IF ShouldRetry(q.retryer)
    THEN [q EXCEPT !.retryer.phase = "sent",
                   !.retryer.snap = <<>>,
                   !.retryer.invalSince = FALSE,
                   !.retryer.failureCount = q.retryer.failureCount + 1]
    ELSE SetError(q)

\* ------------------------------------------------------------ board render
\* const { data: tasks = [] } = useQuery(...)
tasks == query.data

\* Mutant: the comparison of the filter is inverted.
getTasksByStatusInverted(list, status) ==
    SelectSeq(list, LAMBDA t : t.status # status)

getTasksByStatus(list, status) == SelectSeq(list, LAMBDA t : t.status = status)

\* ---------------------------------------------------------------- mutation
NoMutation ==
    [kind |-> "none", taskId |-> "-", status |-> "-", from |-> "-",
     outcome |-> "none", notified |-> 0, delivered |-> FALSE]

\* `from` is history: the cached status of the task when mutate() was called.
Mutation(kind, taskId, status, from) ==
    [kind |-> kind, taskId |-> taskId, status |-> status, from |-> from,
     observed |-> TRUE]

\* MutationObserver.mutate detaches the observer from its previous mutation.
Detach(list, kind) ==
    [i \in 1..Len(list) |->
        IF list[i].kind = kind THEN [list[i] EXCEPT !.observed = FALSE]
        ELSE list[i]]

Remove(list, i) == SubSeq(list, 1, i - 1) \o SubSeq(list, i + 1, Len(list))

Settle(m, outcome, notified) ==
    [kind |-> m.kind, taskId |-> m.taskId, status |-> m.status, from |-> m.from,
     outcome |-> outcome, notified |-> notified, delivered |-> m.observed]

\* Mutant: an onMutate that patches the status of the dragged task in the cache.
updateTaskOnMutateOptimistic(q, taskId, status) ==
    [q EXCEPT !.data = PutTask(q.data, taskId, status)]

\* Mutant: the entry is invalidated when mutate runs, before the write settles.
updateTaskOnMutateInvalidates(q, taskId, status) == InvalidateQueries(q, TRUE)

\* updateTask has no onMutate: the cache entry is not touched when mutate runs.
updateTaskOnMutate(q, taskId, status) == q

\* Mutant: onSuccess marks the entry without refetching it.
updateTaskOnSuccessMarkOnly(q, active) == InvalidateQueries(q, FALSE)

\* updateTask.onSuccess
updateTaskOnSuccess(q, active) == InvalidateQueries(q, active)

\* Mutant: the invalidation is registered as onSettled, so it runs on failure too.
updateTaskOnErrorInvalidates(q, active) == InvalidateQueries(q, active)

\* updateTask has no onError / onSettled: a failed write leaves the entry alone.
updateTaskOnError(q, active) == q

\* createTask.onSuccess
createTaskOnSuccess(q, active) == InvalidateQueries(q, active)

\* ------------------------------------------------------------ remote store
InitialServers == {<<Task("T1", "todo")>>}

\* ------------------------------------------------------------------- forms
\* The other mutations of the core and the key each one invalidates.
FormKinds == {"createProject", "createFlashcard", "createEvent"}

FormKeys == {"projects", "flashcards", "todayEvents"}

KeyOf(kind) ==
    CASE kind = "createProject"   -> "projects"
      [] kind = "createFlashcard" -> "flashcards"
      [] kind = "createEvent"     -> "todayEvents"
      [] OTHER                    -> "tasks"

\* createProject lives in WorkSession's project list, the other two in StudySession.
PageOf(kind) == IF kind = "createProject" THEN "projects" ELSE "study"

Pages == {"board", "projects", "study"}

\* The page renders a useQuery of the key (['todayEvents'] is read by
\* Dashboard only, which none of the three pages renders).
ActiveOn(key, p) ==
    \/ key = "projects" /\ p = "projects"
    \/ key = "flashcards" /\ p = "study"

\* onSuccess of createProject, createFlashcard and createEvent.
formOnSuccess(q, active) == InvalidateQueries(q, active)

\* The three mutations have no onMutate, onError or onSettled.
formOnError(q, active) == q

\* The entries when the page has mounted; ['todayEvents'] may be left in the
\* cache by an earlier visit of Dashboard.
InitialKeys(p) ==
    {[k \in FormKeys |->
         IF ActiveOn(k, p) THEN QueryFetch(NoQuery, FALSE, "mount")
         ELSE IF k = "todayEvents" /\ p = "study" /\ visited
              THEN SetData([NoQuery EXCEPT !.built = TRUE], <<>>)
              ELSE NoQuery] : visited \in BOOLEAN}

\* ------------------------------------------------------------ request helper
\* The component whose query or mutation function issues the request.
ComponentOf(kind) ==
    CASE kind \in {"tasks", "updateTask"} -> "KanbanBoard"
      [] kind \in {"projects", "createProject", "createTask"} -> "WorkSession"
      [] kind \in {"flashcards", "createFlashcard", "createEvent"} -> "StudySession"
      [] OTHER -> "Dashboard"

\* Components in whose scope apiCall is bound to createApiCall(user): App.js
\* defines createApiCall and never calls it, and declares no apiCall.
HelperBound == {}

\* ---------------------------------------------------------------- Pomodoro
FocusSeconds == 25 * 60
BreakSeconds == 5 * 60

\* Mutant: the expiry keeps the mode.
ExpiredModeKept(break) == break

\* setIsBreak(!isBreak) of the expiry effect and of Skip.
ExpiredMode(break) == ~break

\* timeLeft the expiry effect and Skip set: they read the mode before the flip.
NextModeSeconds(break) == IF break THEN FocusSeconds ELSE BreakSeconds

\* Mutant: Reset takes the duration of the other mode.
ResetSecondsSwapped(break) == IF break THEN FocusSeconds ELSE BreakSeconds

\* timeLeft Reset sets: the full duration of the current mode.
ResetSeconds(break) == IF break THEN BreakSeconds ELSE FocusSeconds

\* -------------------------------------------------------------------- Init
BaseInit ==
    /\ server \in InitialServers
    /\ query = NoQuery
    /\ orphans = 0
    /\ mounted = FALSE
    /\ pending = <<>>
    /\ updateTask = "idle"
    /\ createTask = "idle"
    /\ settled = NoMutation
    /\ stored = NoRetryer
    /\ issued = 0
    /\ dragCancelled = FALSE
    /\ forms = [k \in FormKinds |-> "idle"]
    /\ keys \in InitialKeys(page)
    /\ timeLeft = FocusSeconds
    /\ isRunning = FALSE
    /\ isBreak = FALSE
    /\ expired = FALSE

\* The run stays on the board page of one project.
Init == page = "board" /\ BaseInit

\* ----------------------------------------------------------------- actions
\* WorkSession selects the project: KanbanBoard mounts, its useQuery observer
\* subscribes and fetches (the entry is always stale), its useMutation is new.
Mount ==
    /\ page = "board"
    /\ ~mounted
    /\ mounted' = TRUE
    /\ query' = QueryFetch(query, FALSE, "mount")
    /\ orphans' = orphans + Superseded(query, FALSE)
    /\ updateTask' = "idle"
    /\ settled' = NoMutation
    /\ stored' = NoRetryer
    /\ dragCancelled' = FALSE
    /\ UNCHANGED <<server, pending, createTask, issued>>
    /\ UNCHANGED offBoard

\* "Back to Projects": the observers unsubscribe; a running fetch goes on but
\* its retries are cancelled; running mutations go on unobserved.
Unmount ==
    /\ page = "board"
    /\ mounted
    /\ mounted' = FALSE
    /\ query' = IF query.retryer.phase = "none" THEN query
                ELSE [query EXCEPT !.retryer.retryCancelled = TRUE]
    /\ pending' = Detach(pending, "updateTask")
    /\ updateTask' = "idle"
    /\ settled' = NoMutation
    /\ stored' = NoRetryer
    /\ dragCancelled' = FALSE
    /\ UNCHANGED <<server, orphans, createTask, issued>>
    /\ UNCHANGED offBoard

\* The window regains focus: the observer refetches without cancelRefetch.
WindowFocus ==
    /\ page = "board"
    /\ mounted
    /\ query' = QueryFetch(query, FALSE, "focus")
    /\ orphans' = orphans + Superseded(query, FALSE)
    /\ settled' = NoMutation
    /\ stored' = NoRetryer
    /\ dragCancelled' = FALSE
    /\ UNCHANGED <<server, mounted, pending, updateTask, createTask, issued>>
    /\ UNCHANGED offBoard

\* The entry has no observer and no fetch: the cache drops it.
GarbageCollect ==
    /\ page = "board"
    /\ ~mounted
    /\ query.built
    /\ query.fetchStatus = "idle"
    /\ query' = NoQuery
    /\ settled' = NoMutation
    /\ stored' = NoRetryer
    /\ dragCancelled' = FALSE
    /\ UNCHANGED <<server, orphans, mounted, pending, updateTask, createTask, issued>>
    /\ UNCHANGED offBoard

\* The remote store answers GET /projects/{id}/tasks from its current list.
ServeFetch ==
    /\ page = "board"
    /\ query.retryer.phase = "sent"
    /\ query' = [query EXCEPT !.retryer.phase = "served", !.retryer.snap = server]
    /\ settled' = NoMutation
    /\ stored' = NoRetryer
    /\ dragCancelled' = FALSE
    /\ UNCHANGED <<server, orphans, mounted, pending, updateTask, createTask, issued>>
    /\ UNCHANGED offBoard

\* The response of the running fetch arrives: the entry stores it.
FetchSucceed ==
    /\ page = "board"
    /\ query.retryer.phase = "served"
    /\ query' = SetData(query, query.retryer.snap)
    /\ settled' = NoMutation
    /\ stored' = query.retryer
    /\ dragCancelled' = FALSE
    /\ UNCHANGED <<server, orphans, mounted, pending, updateTask, createTask, issued>>
    /\ UNCHANGED offBoard

\* The running fetch fails: retried while the retryer allows, else Error.
FetchFail ==
    /\ page = "board"
    /\ query.retryer.phase # "none"
    /\ query' = FailFetch(query)
    /\ settled' = NoMutation
    /\ stored' = NoRetryer
    /\ dragCancelled' = FALSE
    /\ UNCHANGED <<server, orphans, mounted, pending, updateTask, createTask, issued>>
    /\ UNCHANGED offBoard

\* The response of a superseded GET arrives and is dropped.
OrphanArrives ==
    /\ page = "board"
    /\ orphans > 0
    /\ orphans' = orphans - 1
    /\ settled' = NoMutation
    /\ stored' = NoRetryer
    /\ dragCancelled' = FALSE
    /\ UNCHANGED <<server, query, mounted, pending, updateTask, createTask, issued>>
    /\ UNCHANGED offBoard

\* result.destination of a drag that ended outside every column.
NoDestination == "null"

\* Mutant: onDragEnd without its early return.
MutateCallsUnguarded(taskId, destination, from) ==
    <<Mutation("updateTask", taskId, destination, from)>>

\* The updateTask.mutate calls of one onDragEnd(result): none when
\* result.destination is missing, else one with the destination's column.
MutateCalls(taskId, destination, from) ==
    IF destination = NoDestination
    THEN <<>>
    ELSE <<Mutation("updateTask", taskId, destination, from)>>

\* KanbanBoard.onDragEnd for a drag cancelled outside any column.
onDragEndCancelled(taskId) ==
    /\ page = "board"
    /\ mounted
    /\ HasTask(tasks, taskId)
    /\ LET calls == MutateCalls(taskId, NoDestination, StatusOf(tasks, taskId))
       IN  /\ issued' = issued + Len(calls)
           /\ pending' = IF calls = <<>> THEN pending
                          ELSE Detach(pending, "updateTask") \o calls
           /\ updateTask' = IF calls = <<>> THEN updateTask ELSE "loading"
    /\ settled' = NoMutation
    /\ stored' = NoRetryer
    /\ dragCancelled' = TRUE
    /\ UNCHANGED <<server, query, orphans, mounted, createTask>>
    /\ UNCHANGED offBoard

\* KanbanBoard.onDragEnd with a destination: updateTask.mutate({taskId, status}).
onDragEnd(taskId, newStatus) ==
    /\ page = "board"
    /\ mounted
    /\ issued < MaxMutations
    /\ issued' = issued + 1
    /\ HasTask(tasks, taskId)
    /\ pending' = Append(Detach(pending, "updateTask"),
                         Mutation("updateTask", taskId, newStatus,
                                  StatusOf(tasks, taskId)))
    /\ updateTask' = "loading"
    /\ query' = updateTaskOnMutate(query, taskId, newStatus)
    /\ settled' = NoMutation
    /\ stored' = NoRetryer
    /\ dragCancelled' = FALSE
    /\ UNCHANGED <<server, orphans, mounted, createTask>>
    /\ UNCHANGED offBoard

\* WorkSession.handleTaskSubmit: createTask.mutate({title, description}); the
\* submit button is disabled while createTask.isLoading.
handleTaskSubmit ==
    /\ page = "board"
    /\ mounted
    /\ issued < MaxMutations
    /\ issued' = issued + 1
    /\ createTask # "loading"
    /\ pending' = Append(Detach(pending, "createTask"),
                         Mutation("createTask", "-", "-", "-"))
    /\ createTask' = "loading"
    /\ settled' = NoMutation
    /\ stored' = NoRetryer
    /\ dragCancelled' = FALSE
    /\ UNCHANGED <<server, query, orphans, mounted, updateTask>>
    /\ UNCHANGED offBoard

\* What a settled mutation leaves in the hook results.
HookAfter(m, kind, hook, outcome) ==
    IF m.kind = kind /\ m.observed THEN outcome ELSE hook

\* PUT /tasks/{id} succeeds: the store is updated, onSuccess invalidates.
PutSucceed(i) ==
    /\ page = "board"
    /\ i \in 1..Len(pending)
    /\ pending[i].kind = "updateTask"
    /\ server' = PutTask(server, pending[i].taskId, pending[i].status)
    /\ query' = updateTaskOnSuccess(query, mounted)
    /\ orphans' = orphans + InvalidateSupersedes(query, mounted)
    /\ settled' = Settle(pending[i], "success", Dispatches(query, query'))
    /\ updateTask' = HookAfter(pending[i], "updateTask", updateTask, "success")
    /\ pending' = Remove(pending, i)
    /\ stored' = NoRetryer
    /\ dragCancelled' = FALSE
    /\ UNCHANGED <<mounted, createTask, issued>>
    /\ UNCHANGED offBoard

\* PUT /tasks/{id} fails (the store may or may not have applied the write).
PutFail(i, applied) ==
    /\ page = "board"
    /\ i \in 1..Len(pending)
    /\ pending[i].kind = "updateTask"
    /\ server' = IF applied
                 THEN PutTask(server, pending[i].taskId, pending[i].status)
                 ELSE server
    /\ query' = updateTaskOnError(query, mounted)
    /\ settled' = Settle(pending[i], "error", Dispatches(query, query'))
    /\ updateTask' = HookAfter(pending[i], "updateTask", updateTask, "error")
    /\ pending' = Remove(pending, i)
    /\ stored' = NoRetryer
    /\ dragCancelled' = FALSE
    /\ UNCHANGED <<orphans, mounted, createTask, issued>>
    /\ UNCHANGED offBoard

\* POST /projects/{id}/tasks succeeds: the store appends, onSuccess invalidates.
PostSucceed(i) ==
    /\ page = "board"
    /\ i \in 1..Len(pending)
    /\ pending[i].kind = "createTask"
    /\ server' = PostTask(server)
    /\ query' = createTaskOnSuccess(query, mounted)
    /\ orphans' = orphans + InvalidateSupersedes(query, mounted)
    /\ settled' = Settle(pending[i], "success", Dispatches(query, query'))
    /\ createTask' = HookAfter(pending[i], "createTask", createTask, "success")
    /\ pending' = Remove(pending, i)
    /\ stored' = NoRetryer
    /\ dragCancelled' = FALSE
    /\ UNCHANGED <<mounted, updateTask, issued>>
    /\ UNCHANGED offBoard

\* POST /projects/{id}/tasks fails.
PostFail(i) ==
    /\ page = "board"
    /\ i \in 1..Len(pending)
    /\ pending[i].kind = "createTask"
    /\ settled' = Settle(pending[i], "error", 0)
    /\ createTask' = HookAfter(pending[i], "createTask", createTask, "error")
    /\ pending' = Remove(pending, i)
    /\ stored' = NoRetryer
    /\ dragCancelled' = FALSE
    /\ UNCHANGED <<server, query, orphans, mounted, updateTask, issued>>
    /\ UNCHANGED offBoard

Next ==
    \/ Mount
    \/ Unmount
    \/ WindowFocus
    \/ GarbageCollect
    \/ ServeFetch
    \/ FetchSucceed
    \/ FetchFail
    \/ OrphanArrives
    \/ \E t \in Ids(tasks), s \in Statuses : onDragEnd(t, s)
    \/ \E t \in Ids(tasks) : onDragEndCancelled(t)
    \/ handleTaskSubmit
    \/ \E i \in 1..MaxMutations : PutSucceed(i)
    \/ \E i \in 1..MaxMutations, applied \in BOOLEAN : PutFail(i, applied)
    \/ \E i \in 1..MaxMutations : PostSucceed(i)
    \/ \E i \in 1..MaxMutations : PostFail(i)

Spec == Init /\ [][Next]_vars

\* ------------------------------------------------------------ form actions
\* What the form handlers never touch.
offForms == <<server, query, orphans, mounted, updateTask, createTask,
              page, timeLeft, isRunning, isBreak, expired>>

\* handleProjectSubmit, handleFlashcardSubmit, handleEventSubmit: mutate();
\* the submit button is disabled while the mutation isLoading.
handleFormSubmit(kind) ==
    /\ page = PageOf(kind)
    /\ issued < MaxMutations
    /\ issued' = issued + 1
    /\ forms[kind] # "loading"
    /\ pending' = Append(Detach(pending, kind), Mutation(kind, "-", "-", "-"))
    /\ forms' = [forms EXCEPT ![kind] = "loading"]
    /\ settled' = NoMutation
    /\ stored' = NoRetryer
    /\ dragCancelled' = FALSE
    /\ UNCHANGED keys
    /\ UNCHANGED offForms

\* The POST of a form succeeds: onSuccess invalidates the key of the form.
FormSucceed(i) ==
    /\ page # "board"
    /\ i \in 1..Len(pending)
    /\ pending[i].kind \in FormKinds
    /\ LET kind == pending[i].kind
           k == KeyOf(kind)
       IN  /\ keys' = [keys EXCEPT
                          ![k] = formOnSuccess(keys[k], ActiveOn(k, page))]
           /\ settled' = Settle(pending[i], "success", Dispatches(keys[k], keys'[k]))
           /\ forms' = [forms EXCEPT ![kind] = "success"]
    /\ pending' = Remove(pending, i)
    /\ stored' = NoRetryer
    /\ dragCancelled' = FALSE
    /\ UNCHANGED issued
    /\ UNCHANGED offForms

\* The POST of a form fails.
FormFail(i) ==
    /\ page # "board"
    /\ i \in 1..Len(pending)
    /\ pending[i].kind \in FormKinds
    /\ LET kind == pending[i].kind
           k == KeyOf(kind)
       IN  /\ keys' = [keys EXCEPT
                          ![k] = formOnError(keys[k], ActiveOn(k, page))]
           /\ settled' = Settle(pending[i], "error", Dispatches(keys[k], keys'[k]))
           /\ forms' = [forms EXCEPT ![kind] = "error"]
    /\ pending' = Remove(pending, i)
    /\ stored' = NoRetryer
    /\ dragCancelled' = FALSE
    /\ UNCHANGED issued
    /\ UNCHANGED offForms

\* The fetch of a form's key returns (the list itself is not modelled).
KeyFetchSucceed(k) ==
    /\ page # "board"
    /\ keys[k].retryer.phase # "none"
    /\ keys' = [keys EXCEPT ![k] = SetData(keys[k], <<>>)]
    /\ settled' = NoMutation
    /\ stored' = NoRetryer
    /\ dragCancelled' = FALSE
    /\ UNCHANGED <<pending, forms, issued>>
    /\ UNCHANGED offForms

\* The fetch of a form's key fails.
KeyFetchFail(k) ==
    /\ page # "board"
    /\ keys[k].retryer.phase # "none"
    /\ keys' = [keys EXCEPT ![k] = FailFetch(keys[k])]
    /\ settled' = NoMutation
    /\ stored' = NoRetryer
    /\ dragCancelled' = FALSE
    /\ UNCHANGED <<pending, forms, issued>>
    /\ UNCHANGED offForms

\* Any page of the core: the run starts on one and stays there.
PagesInit == page \in Pages /\ BaseInit

PagesNext ==
    \/ Mount
    \/ Unmount
    \/ WindowFocus
    \/ GarbageCollect
    \/ ServeFetch
    \/ FetchSucceed
    \/ FetchFail
    \/ OrphanArrives
    \/ \E t \in Ids(tasks), s \in Statuses : onDragEnd(t, s)
    \/ \E t \in Ids(tasks) : onDragEndCancelled(t)
    \/ handleTaskSubmit
    \/ \E i \in 1..MaxMutations : PutSucceed(i)
    \/ \E i \in 1..MaxMutations, applied \in BOOLEAN : PutFail(i, applied)
    \/ \E i \in 1..MaxMutations : PostSucceed(i)
    \/ \E i \in 1..MaxMutations : PostFail(i)
    \/ \E kind \in FormKinds : handleFormSubmit(kind)
    \/ \E i \in 1..MaxMutations : FormSucceed(i)
    \/ \E i \in 1..MaxMutations : FormFail(i)
    \/ \E k \in FormKeys : KeyFetchSucceed(k)
    \/ \E k \in FormKeys : KeyFetchFail(k)

PagesSpec == PagesInit /\ [][PagesNext]_vars

\* ----------------------------------------------------------- Pomodoro timer
\* What the timer never touches.
offTimer == <<issued, server, query, orphans, mounted, pending, updateTask,
              createTask, settled, stored, dragCancelled, page, forms, keys>>

\* The state the timer commits for a handler that set (t, r, b).  The render
\* with timeLeft = 0 has run the expiry branch of the effect, whose three
\* updates are applied after the handler's and so decide the result.
Commit(t, r, b) ==
    IF timeLeft = 0
    THEN /\ isRunning' = FALSE
         /\ isBreak' = ExpiredMode(isBreak)
         /\ timeLeft' = NextModeSeconds(isBreak)
         /\ expired' = TRUE
    ELSE /\ isRunning' = r
         /\ isBreak' = b
         /\ timeLeft' = t
         /\ expired' = FALSE

\* The interval of the effect, armed while isRunning && timeLeft > 0:
\* setTimeLeft(timeLeft => timeLeft - 1) once a second.
Tick ==
    /\ page = "study"
    /\ isRunning /\ timeLeft > 0
    /\ timeLeft' = timeLeft - 1
    /\ expired' = FALSE
    /\ UNCHANGED <<isRunning, isBreak>>
    /\ UNCHANGED offTimer

\* The effect's branch for timeLeft === 0.
Expire ==
    /\ page = "study"
    /\ timeLeft = 0
    /\ isRunning' = FALSE
    /\ isBreak' = ExpiredMode(isBreak)
    /\ timeLeft' = NextModeSeconds(isBreak)
    /\ expired' = TRUE
    /\ UNCHANGED offTimer

\* Start / Pause: setIsRunning(!isRunning).
StartPause ==
    /\ page = "study"
    /\ Commit(timeLeft, ~isRunning, isBreak)
    /\ UNCHANGED offTimer

\* Reset: setTimeLeft(isBreak ? 5 * 60 : 25 * 60); setIsRunning(false).
Reset ==
    /\ page = "study"
    /\ Commit(ResetSeconds(isBreak), FALSE, isBreak)
    /\ UNCHANGED offTimer

\* Skip: setIsBreak(!isBreak); setTimeLeft(isBreak ? 25 * 60 : 5 * 60);
\* setIsRunning(false).
Skip ==
    /\ page = "study"
    /\ Commit(NextModeSeconds(isBreak), FALSE, ExpiredMode(isBreak))
    /\ UNCHANGED offTimer

\* StudySession is on screen with its PomodoroTimer.
PomodoroInit == page = "study" /\ BaseInit

PomodoroNext ==
    \/ Tick
    \/ Expire
    \/ StartPause
    \/ Reset
    \/ Skip

\* The effect runs after every render, so a render with timeLeft = 0 is
\* followed by the expiry branch.
PomodoroSpec == PomodoroInit /\ [][PomodoroNext]_vars /\ WF_vars(Expire)


\* ------------------------------------------------------------ step shapes
\* The latest step settled an updateTask mutation with this outcome.
SettledUpdate(outcome) == settled.kind = "updateTask" /\ settled.outcome = outcome

\* The step settles an updateTask mutation with this outcome.
SettlesUpdate(outcome) == settled'.kind = "updateTask" /\ settled'.outcome = outcome

\* The step issues a mutation (a mutate() call).
Issues == issued' = issued + 1

\* GET requests for the key that are on the wire.
NetworkFetches == orphans + (IF query.retryer.phase = "none" THEN 0 ELSE 1)

\* The columns of the board that render the task.
ColumnsShowing(list, id) ==
    {c \in 1..Len(columns) : HasTask(getTasksByStatus(list, columns[c]), id)}

RECURSIVE SumLen(_, _)
SumLen(list, c) ==
    IF c = 0 THEN 0
    ELSE Len(getTasksByStatus(list, columns[c])) + SumLen(list, c - 1)

\* ------------------------------------------------------------------ claims

C2_NoOpTransition ==
    \A i \in 1..Len(pending) :
        pending[i].kind = "updateTask" => pending[i].status # pending[i].from

C4_ColumnPartition ==
    /\ \A i \in 1..Len(tasks) : Cardinality(ColumnsShowing(tasks, tasks[i].id)) = 1
    /\ SumLen(tasks, Len(columns)) = Len(tasks)

C4_Witness ==
    /\ Len(tasks) = 2
    /\ StatusOf(tasks, "T1") = "done"
    /\ StatusOf(tasks, "T2") = "backlog"

C9_ErrorDelivered ==
    SettledUpdate("error") => (settled.delivered /\ updateTask = "error")

C11_InvalidateAfterSettle ==
    [][ /\ (query'.isInvalidated /\ ~query.isInvalidated)
            => /\ settled'.outcome = "success"
               /\ KeyOf(settled'.kind) = "tasks"
               /\ Len(pending') = Len(pending) - 1
        /\ \A k \in FormKeys :
              (keys'[k].isInvalidated /\ ~keys[k].isInvalidated)
                  => /\ settled'.outcome = "success"
                     /\ KeyOf(settled'.kind) = k
                     /\ Len(pending') = Len(pending) - 1 ]_vars

C11_Witness ==
    /\ settled.kind = "createEvent"
    /\ settled.outcome = "success"
    /\ keys["todayEvents"].isInvalidated
    /\ \E i \in 1..Len(pending) : pending[i].kind = "createFlashcard"

\* C12: a drag that ends with no destination issues no mutation and no remote
\* write and leaves every cache entry, the store and both hook results as they
\* were.
C12_CancelledDragNoOp ==
    [][dragCancelled' =>
          UNCHANGED <<pending, issued, query, keys, server, orphans,
                      updateTask, createTask, forms>>]_vars

C12_Witness ==
    /\ dragCancelled
    /\ query.hasData
    /\ Len(pending) > 0

\* C13: every query function and mutation function that is running belongs to
\* a component where the request helper built from the session user is bound,
\* so its request carries the bearer token of the user.
C13_RequestsThroughHelper ==
    /\ query.retryer.phase # "none" => ComponentOf("tasks") \in HelperBound
    /\ \A k \in FormKeys :
          keys[k].retryer.phase # "none" => ComponentOf(k) \in HelperBound
    /\ \A i \in 1..Len(pending) : ComponentOf(pending[i].kind) \in HelperBound

\* C14: when a countdown has reached timeLeft = 0, the next step of the timer
\* stops it, flips the mode and sets timeLeft to the full duration of the new
\* mode (300 entering break, 1500 entering focus); and the timer always leaves
\* timeLeft = 0.
C14_Expiry ==
    /\ [][timeLeft = 0 =>
             /\ isRunning' = FALSE
             /\ isBreak' = ~isBreak
             /\ timeLeft' = IF isBreak' THEN 300 ELSE 1500]_vars
    /\ ((timeLeft = 0) ~> (timeLeft # 0))

C14_Witness ==
    /\ expired
    /\ ~isRunning
    /\ ~isBreak
    /\ timeLeft = 1500

\* C15: timeLeft stays within 0..1500, and within 0..300 in break mode; a
\* one-second tick (timeLeft goes down by one in the same mode) happens only
\* while isRunning is true and timeLeft > 0.
C15_TimerBounds ==
    /\ [](/\ 0 <= timeLeft
          /\ timeLeft <= 1500
          /\ (isBreak => timeLeft <= 300))
    /\ [][(timeLeft' = timeLeft - 1 /\ isBreak' = isBreak)
             => (isRunning /\ timeLeft > 0)]_vars

C15_Witness ==
    /\ isBreak
    /\ isRunning
    /\ timeLeft = 1

====
